---- MODULE Spec2Model ----
(***************************************************************************)
(* A model of the legal-api search / highlight / export core.              *)
(*                                                                         *)
(* Strings are sequences of one-character strings.  An Optional value is   *)
(* None (the empty tuple) or Some(v) (the one-element tuple <<v>>).         *)
(***************************************************************************)
EXTENDS Integers, Sequences, FiniteSets, TLC

VARIABLES
    store,          \* the "cases" table: a sequence of Case rows (store order)
    req,            \* the call in progress: its operation and arguments
    pc,             \* position of the call: "received", "start", "counted", "done", "sent"
    total,          \* search_cases' local `total` once the count was read
    resp,           \* what the call returned (or the HTTP error it ended with)
    hl_text,        \* highlight_snippet argument `text`
    hl_query,       \* highlight_snippet argument `query`
    hl_max_length,  \* highlight_snippet argument `max_length`
    hl_result,      \* highlight_snippet return value
    hl_pc,          \* "call" before highlight_snippet ran, "done" after
    headers,        \* the request's headers the middleware reads
    request_id,     \* dispatch's local `request_id`
    sent,           \* the response as the client receives it
    limiter,        \* the rate limiter's hits in the current window, per route
    inflight        \* the requests being served at once, each with its own state

vars == <<store, req, pc, total, resp,
          hl_text, hl_query, hl_max_length, hl_result, hl_pc,
          headers, request_id, sent, limiter, inflight>>

storeVars == <<store, req, pc, total, resp>>
hlVars == <<hl_text, hl_query, hl_max_length, hl_result, hl_pc>>
mwVars == <<headers, request_id, sent>>
concVars == <<limiter, inflight>>

-----------------------------------------------------------------------------
(* Bounds of the model *)

MaxTextLen == 3      \* highlight_snippet: longest text
MaxQueryLen == 3     \* highlight_snippet: longest query
MaxMaxLength == 3    \* highlight_snippet: largest max_length
MaxStore == 3        \* most rows in the cases table
MaxPage == 3         \* largest page requested
MaxPerPage == 2      \* largest small per_page requested (20 and 100 are added)
MaxOver == 1         \* how far a long text exceeds the snippet length
MaxInflight == 2     \* requests served at once
MaxFieldLen == 2     \* longest text field of the rows the filter is tried on
MaxPatternLen == 2   \* longest query the filter is tried with
MaxExported == 2     \* most rows in the tables the serializers are tried on
MaxSame == 1         \* most rows in the tables search and export are compared on
MaxJudgesLen == 5    \* longest stored judges string

-----------------------------------------------------------------------------
(* Optional values and strings *)

None == <<>>
Some(v) == <<v>>
Val(o) == o[1]

Min(a, b) == IF a <= b THEN a ELSE b
Max(a, b) == IF a >= b THEN a ELSE b

Strings(chars, n) == UNION {[1..k -> chars] : k \in 0..n}

\* Python truthiness of an Optional[str]: None and "" are falsy.
Truthy(o) == o # None /\ Val(o) # <<>>

\* s[a:b] for 0 <= a, 0 <= b (Python slice, end clamped to len(s)).
PySlice(s, a, b) == SubSeq(s, a + 1, Min(b, Len(s)))

\* Case folding of the characters the model uses.
Lower(c) == IF c = "A" THEN "a" ELSE c

Ellipsis == <<".", ".", ".">>

-----------------------------------------------------------------------------
(* services/highlight.py *)

Mark == <<"m", "a", "r", "k">>
OpenTag(tag) == <<"<">> \o tag \o <<">">>
CloseTag(tag) == <<"<", "/">> \o tag \o <<">">>

IsSpace(c) == c = " "

\* str.split(): the maximal runs of non-whitespace characters, in order.
RECURSIVE SplitFrom(_, _, _)
SplitFrom(q, i, cur) ==
    IF i > Len(q)
    THEN IF cur = <<>> THEN <<>> ELSE <<cur>>
    ELSE IF IsSpace(q[i])
         THEN IF cur = <<>>
              THEN SplitFrom(q, i + 1, <<>>)
              ELSE <<cur>> \o SplitFrom(q, i + 1, <<>>)
         ELSE SplitFrom(q, i + 1, Append(cur, q[i]))

Split(q) == SplitFrom(q, 1, <<>>)

\* a match that tells upper case from lower case
MatchAtExact(s, i, token) ==
    /\ i + Len(token) - 1 <= Len(s)
    /\ \A k \in 1..Len(token) : s[i + k - 1] = token[k]

\* re.escape(token) under re.IGNORECASE matches at 1-based position i of s.
MatchAt(s, i, token) ==
    /\ i + Len(token) - 1 <= Len(s)
    /\ \A k \in 1..Len(token) : Lower(s[i + k - 1]) = Lower(token[k])

\* re.search("t1|t2|...", text, re.IGNORECASE): Some(match.start()) of the
\* leftmost match (0-based), or None.
re_search(tokens, text) ==
    LET P == {i \in 1..Len(text) :
                 \E t \in 1..Len(tokens) : MatchAt(text, i, tokens[t])}
    IN  IF P = {} THEN None
        ELSE Some((CHOOSE i \in P : \A j \in P : i <= j) - 1)

\* the start of the first match of token in s at or after position i (1-based),
\* 0 when there is none
NextMatch(s, i, token) ==
    LET P == {j \in i..Len(s) : MatchAt(s, j, token)}
    IN  IF P = {} THEN 0 ELSE CHOOSE j \in P : \A k \in P : j <= k

\* re.sub(f"({re.escape(token)})", rf"<{tag}>\1</{tag}>", s, flags=re.IGNORECASE):
\* left to right, non-overlapping, the matched text kept as it is in s.
RECURSIVE SubFrom(_, _, _, _)
SubFrom(s, i, token, tag) ==
    LET j == NextMatch(s, i, token)
    IN  IF j = 0 THEN SubSeq(s, i, Len(s))
        ELSE SubSeq(s, i, j - 1)
             \o OpenTag(tag) \o SubSeq(s, j, j + Len(token) - 1) \o CloseTag(tag)
             \o SubFrom(s, j + Len(token), token, tag)

re_sub(token, tag, s) == SubFrom(s, 1, token, tag)

\* a loop that stops after the first token
WrapFirstTokenOnly(tokens, k, tag, snippet) ==
    IF k > Len(tokens) THEN snippet ELSE re_sub(tokens[k], tag, snippet)

\* for token in tokens: snippet = re.sub(...)
RECURSIVE WrapTokens(_, _, _, _)
WrapTokens(tokens, k, tag, snippet) ==
    IF k > Len(tokens) THEN snippet
    ELSE WrapTokens(tokens, k + 1, tag, re_sub(tokens[k], tag, snippet))

\* truncation that also cuts a text of exactly max_length characters
TruncatedAtEqual(text, max_length) ==
    IF Len(text) >= max_length
    THEN PySlice(text, 0, max_length) \o Ellipsis
    ELSE text

\* text[:max_length] + "..." if len(text) > max_length else text
Truncated(text, max_length) ==
    IF Len(text) > max_length
    THEN PySlice(text, 0, max_length) \o Ellipsis
    ELSE text

\* a window centred on the match: max_length // 2 before it
WindowStartHalf(match, max_length) ==
    IF match # None THEN Max(0, Val(match) - (max_length \div 2)) ELSE 0

\* start of the window: max(0, match.start() - max_length // 3), or 0
WindowStart(match, max_length) ==
    IF match # None THEN Max(0, Val(match) - (max_length \div 3)) ELSE 0

\* the snippet with its ellipsis indicators, before the tokens are wrapped
SlicedSnippet(text, start, end) ==
    LET snippet == PySlice(text, start, end)
        lead == IF start > 0 THEN Ellipsis \o snippet ELSE snippet
    IN  IF end < Len(text) THEN lead \o Ellipsis ELSE lead

\* max_length: int = 300
DefaultMaxLength == 300

highlight_snippet(text, query, max_length, tag) ==
    IF ~Truthy(text) \/ query = <<>>
    THEN IF Truthy(text) /\ Len(Val(text)) > max_length
         THEN Some(PySlice(Val(text), 0, max_length) \o Ellipsis)
         ELSE text
    ELSE LET tokens == Split(query) IN
         IF tokens = <<>>
         THEN Some(Truncated(Val(text), max_length))
         ELSE LET match == re_search(tokens, Val(text))
                  start == WindowStart(match, max_length)
                  end == start + max_length
              IN  Some(WrapTokens(tokens, 1, tag,
                                  SlicedSnippet(Val(text), start, end)))

-----------------------------------------------------------------------------
(* highlight_snippet as a pure function: inputs drawn in the initial state *)

TextChars == {"a", "A", "b", "."}
QueryChars == {"a", "b", ".", " "}

HLTexts == {None} \cup {Some(s) : s \in Strings(TextChars, MaxTextLen)}
HLQueries == Strings(QueryChars, MaxQueryLen)

\* no request passing through the middleware
IdleMW ==
    /\ headers = [x_request_id |-> None]
    /\ request_id = <<>>
    /\ sent = None

\* no requests served at once
IdleConc ==
    /\ limiter = <<>>
    /\ inflight = <<>>

IdleStore ==
    /\ store = <<>>
    /\ req = [op |-> "none"]
    /\ pc = "idle"
    /\ total = 0
    /\ resp = [kind |-> "none"]

InitHL ==
    /\ IdleStore
    /\ IdleMW
    /\ IdleConc
    /\ hl_text \in HLTexts
    /\ hl_query \in HLQueries
    /\ hl_max_length \in 1..MaxMaxLength
    /\ hl_result = None
    /\ hl_pc = "call"

HighlightSnippet ==
    /\ hl_pc = "call"
    /\ hl_result' = highlight_snippet(hl_text, hl_query, hl_max_length, Mark)
    /\ hl_pc' = "done"
    /\ UNCHANGED <<hl_text, hl_query, hl_max_length>>
    /\ UNCHANGED storeVars
    /\ UNCHANGED <<mwVars, concVars>>

NextHL == HighlightSnippet

SpecHL == InitHL /\ [][NextHL]_vars

-----------------------------------------------------------------------------
(* database.py: a row of the cases table *)

Case(id, title, citation, court, date, year, judges, headnote, text) ==
    [id |-> id, title |-> title, citation |-> citation, court |-> court,
     date |-> date, year |-> year, judges |-> judges, headnote |-> headnote,
     text |-> text]

-----------------------------------------------------------------------------
(* What the store evaluates: LIKE, string comparison *)

\* pattern[i..] LIKE-matches s[j..]: "%" is any run of characters, "_" any one
\* character, every other character itself; both sides were lower-cased.
RECURSIVE LikeFrom(_, _, _, _)
LikeFrom(pattern, i, s, j) ==
    IF i > Len(pattern) THEN j > Len(s)
    ELSE IF pattern[i] = "%"
         THEN \E k \in j..(Len(s) + 1) : LikeFrom(pattern, i + 1, s, k)
         ELSE /\ j <= Len(s)
              /\ pattern[i] = "_" \/ Lower(pattern[i]) = Lower(s[j])
              /\ LikeFrom(pattern, i + 1, s, j + 1)

\* column.ilike(pattern): lower(column) LIKE lower(pattern); NULL is not true
ilike(column, pattern) ==
    column # None /\ LikeFrom(pattern, 1, Val(column), 1)

\* code points of the characters dates are written with
Ord(c) ==
    CASE c = "-" -> 45 [] c = "0" -> 48 [] c = "1" -> 49 [] c = "2" -> 50
      [] OTHER -> 63

\* a <= b as the store compares text: by code point, a prefix first
StrLe(a, b) ==
    \/ /\ Len(a) <= Len(b)
       /\ \A k \in 1..Len(a) : a[k] = b[k]
    \/ \E k \in 1..Min(Len(a), Len(b)) :
           /\ \A h \in 1..(k - 1) : a[h] = b[h]
           /\ Ord(a[k]) < Ord(b[k])

-----------------------------------------------------------------------------
(* services/search.py *)

\* f"%{query}%"
SearchTerm(query) == <<"%">> \o query \o <<"%">>

\* or_(title.ilike, headnote.ilike, text.ilike, citation.ilike)
TextCondition(case, query) ==
    \/ ilike(Some(case.title), SearchTerm(query))
    \/ ilike(case.headnote, SearchTerm(query))
    \/ ilike(case.text, SearchTerm(query))
    \/ ilike(case.citation, SearchTerm(query))

\* if year: conditions.append(Case.year == year)
YearCondition(case, year) ==
    (year # None /\ Val(year) # 0) => (case.year # None /\ Val(case.year) = Val(year))

\* the WHERE clause search_cases builds: the conditions appended, ANDed
SearchWhere(case, query, court, year, date_from, date_to) ==
    /\ query # <<>> => TextCondition(case, query)
    /\ Truthy(court) => ilike(case.court, SearchTerm(Val(court)))
    /\ YearCondition(case, year)
    /\ Truthy(date_from) => (case.date # None /\ StrLe(Val(date_from), Val(case.date)))
    /\ Truthy(date_to) => (case.date # None /\ StrLe(Val(case.date), Val(date_to)))

\* the rows the statement selects, in store order
SearchRows(table, r) ==
    LET Keep(case) == SearchWhere(case, r.q, r.court, r.year, r.date_from, r.date_to)
    IN  SelectSeq(table, Keep)

\* a count taken from the page instead of the whole matching set
CountOfPage(table, r) ==
    Len(PySlice(SearchRows(table, r), (r.page - 1) * r.per_page,
                (r.page - 1) * r.per_page + r.per_page))

\* select(func.count()).select_from(stmt.subquery()), `or 0`
CountMatching(table, r) == Len(SearchRows(table, r))

\* a page taken with the offset page * per_page
PageRowsOneOff(table, r) ==
    PySlice(SearchRows(table, r), r.page * r.per_page,
            r.page * r.per_page + r.per_page)

\* stmt.offset((page - 1) * per_page).limit(per_page)
PageRows(table, r) ==
    LET offset == (r.page - 1) * r.per_page
    IN  PySlice(SearchRows(table, r), offset, offset + r.per_page)

SnippetChars == 300

\* case.headnote or (case.text[:300] + "..." if case.text else None)
Snippet(case) ==
    IF Truthy(case.headnote) THEN case.headnote
    ELSE IF Truthy(case.text)
         THEN Some(PySlice(Val(case.text), 0, SnippetChars) \o Ellipsis)
         ELSE None

CaseResponse(case) ==
    [id |-> case.id, title |-> case.title, citation |-> case.citation,
     court |-> case.court, date |-> case.date, snippet |-> Snippet(case),
     relevance |-> 1]

\* floor division in place of the ceiling
TotalPagesFloor(n, per_page) == n \div per_page

\* (total + per_page - 1) // per_page
TotalPages(n, per_page) == (n + per_page - 1) \div per_page

SearchResponse(n, r, cases) ==
    [kind |-> "SearchResponse", total |-> n, page |-> r.page,
     per_page |-> r.per_page, total_pages |-> TotalPages(n, r.per_page),
     results |-> [i \in 1..Len(cases) |-> CaseResponse(cases[i])]]

-----------------------------------------------------------------------------
(* services/export.py *)

MAX_EXPORT_ROWS == 10000

ExportWhere(case, query, court, year, date_from, date_to) ==
    /\ query # <<>> => TextCondition(case, query)
    /\ Truthy(court) => ilike(case.court, SearchTerm(Val(court)))
    /\ (year # None /\ Val(year) # 0)
          => (case.year # None /\ Val(case.year) = Val(year))
    /\ Truthy(date_from) => (case.date # None /\ StrLe(Val(date_from), Val(case.date)))
    /\ Truthy(date_to) => (case.date # None /\ StrLe(Val(case.date), Val(date_to)))

\* a limit that is not capped at MAX_EXPORT_ROWS
fetch_uncapped_rows(table, r) ==
    LET Keep(case) == ExportWhere(case, r.q, r.court, r.year, r.date_from, r.date_to)
    IN  PySlice(SelectSeq(table, Keep), 0, r.limit)

\* _fetch_export_rows: the filtered rows, at most min(limit, MAX_EXPORT_ROWS)
fetch_export_rows(table, r) ==
    LET Keep(case) == ExportWhere(case, r.q, r.court, r.year, r.date_from, r.date_to)
    IN  PySlice(SelectSeq(table, Keep), 0, Min(r.limit, MAX_EXPORT_ROWS))

\* the strings of ss[lo..hi] one after the other
RECURSIVE FlatRange(_, _, _)
FlatRange(ss, lo, hi) ==
    IF lo > hi THEN <<>>
    ELSE IF lo = hi THEN ss[lo]
         ELSE LET mid == (lo + hi) \div 2
              IN  FlatRange(ss, lo, mid) \o FlatRange(ss, mid + 1, hi)

Flatten(ss) == FlatRange(ss, 1, Len(ss))

\* sep.join(ss)
Join(sep, ss) ==
    Flatten([i \in 1..Len(ss) |-> IF i = 1 THEN ss[i] ELSE sep \o ss[i]])

DecimalDigits == <<"0", "1", "2", "3", "4", "5", "6", "7", "8", "9">>

RECURSIVE DecimalNat(_)
DecimalNat(n) ==
    IF n < 10 THEN <<DecimalDigits[n + 1]>>
    ELSE DecimalNat(n \div 10) \o <<DecimalDigits[(n % 10) + 1]>>

\* str(n) of an int
str(n) == IF n < 0 THEN <<"-">> \o DecimalNat(0 - n) ELSE DecimalNat(n)

\* the column names both exports write, in order
ExportColumns ==
    << <<"i", "d">>, <<"t", "i", "t", "l", "e">>,
       <<"c", "i", "t", "a", "t", "i", "o", "n">>, <<"c", "o", "u", "r", "t">>,
       <<"d", "a", "t", "e">>, <<"y", "e", "a", "r">>,
       <<"j", "u", "d", "g", "e", "s">>,
       <<"h", "e", "a", "d", "n", "o", "t", "e">> >>

\* csv.writer (excel dialect, QUOTE_MINIMAL): a field is quoted when it holds
\* the delimiter, the quote character or a character of the line terminator
CsvSpecial == {",", "\"", "\r", "\n"}
CsvNeedsQuote(f) == \E i \in 1..Len(f) : f[i] \in CsvSpecial

\* the quote character doubled
CsvDoubled(f) ==
    Flatten([i \in 1..Len(f) |-> IF f[i] = "\"" THEN <<"\"", "\"">> ELSE <<f[i]>>])

\* a writer that never quotes
CsvFieldUnquoted(f) == f

CsvField(f) ==
    IF CsvNeedsQuote(f) THEN <<"\"">> \o CsvDoubled(f) \o <<"\"">> ELSE f

\* writer.writerow(fields): the fields joined by "," and ended by "\r\n"
CsvRow(fields) ==
    Join(<<",">>, [i \in 1..Len(fields) |-> CsvField(fields[i])]) \o <<"\r", "\n">>

\* c.x or "" for an Optional[str] column
OrEmpty(o) == IF Truthy(o) THEN Val(o) ELSE <<>>

\* c.year or "", written with str(): NULL and 0 give the empty field
YearOrEmpty(y) == IF y # None /\ Val(y) # 0 THEN str(Val(y)) ELSE <<>>

CsvHeadnoteChars == 500

\* the list export_cases_csv writes for a case
CsvFields(c) ==
    <<c.id, c.title, OrEmpty(c.citation), OrEmpty(c.court), OrEmpty(c.date),
      YearOrEmpty(c.year), OrEmpty(c.judges),
      PySlice(OrEmpty(c.headnote), 0, CsvHeadnoteChars)>>

\* export_cases_csv: (csv_string, row_count)
export_cases_csv(table, r) ==
    LET cases == fetch_export_rows(table, r)
    IN  [text |-> CsvRow(ExportColumns)
                  \o Flatten([i \in 1..Len(cases) |-> CsvRow(CsvFields(cases[i]))]),
         count |-> Len(cases)]

\* a dump that escapes nothing
JsonEscapeNothing(c) == <<c>>

\* json.dumps of a str with ensure_ascii=False: quoted, with the quote, the
\* backslash and the control characters escaped
JsonEscape(c) ==
    CASE c = "\"" -> <<"\\", "\"">>
      [] c = "\\" -> <<"\\", "\\">>
      [] c = "\n" -> <<"\\", "n">>
      [] c = "\r" -> <<"\\", "r">>
      [] c = "\t" -> <<"\\", "t">>
      [] OTHER -> <<c>>

JsonString(s) ==
    <<"\"">> \o Flatten([i \in 1..Len(s) |-> JsonEscape(s[i])]) \o <<"\"">>

JsonNull == <<"n", "u", "l", "l">>

JsonOptString(o) == IF o = None THEN JsonNull ELSE JsonString(Val(o))
JsonOptInt(o) == IF o = None THEN JsonNull ELSE str(Val(o))

\* the values of the object export_cases_jsonl builds for a case, as JSON
JsonValues(c) ==
    <<JsonString(c.id), JsonString(c.title), JsonOptString(c.citation),
      JsonOptString(c.court), JsonOptString(c.date), JsonOptInt(c.year),
      JsonOptString(c.judges), JsonOptString(c.headnote)>>

\* json.dumps(obj, ensure_ascii=False) with the default separators ", ", ": "
JsonObject(c) ==
    <<"{">>
    \o Join(<<",", " ">>,
            [k \in 1..Len(ExportColumns) |->
                JsonString(ExportColumns[k]) \o <<":", " ">> \o JsonValues(c)[k]])
    \o <<"}">>

\* export_cases_jsonl: (jsonl_string, row_count)
export_cases_jsonl(table, r) ==
    LET cases == fetch_export_rows(table, r)
    IN  [text |-> Join(<<"\n">>, [i \in 1..Len(cases) |-> JsonObject(cases[i])]),
         count |-> Len(cases)]

-----------------------------------------------------------------------------
(* json.loads, as far as the stored judges strings exercise it: strings,     *)
(* integers and arrays, without white space                                  *)

\* int(s) of a string of decimal digits
DigitValue(c) == CHOOSE d \in 0..9 : DecimalDigits[d + 1] = c
RECURSIVE ParseNat(_)
ParseNat(s) ==
    IF s = <<>> THEN 0
    ELSE 10 * ParseNat(SubSeq(s, 1, Len(s) - 1)) + DigitValue(s[Len(s)])

At(s, i) == IF i >= 1 /\ i <= Len(s) THEN s[i] ELSE ""
IsDigit(c) == \E d \in 1..10 : DecimalDigits[d] = c

\* the backslashes that immediately precede position j, the string opening at i
BackslashRun(s, i, j) ==
    LET N == {k \in i..(j - 1) : s[k] # "\\"}
    IN  (j - 1) - (CHOOSE k \in N : \A h \in N : k >= h)

\* the closing quote of the JSON string that opens at position i, 0 if none
StringEnd(s, i) ==
    LET C == {j \in (i + 1)..Len(s) : s[j] = "\"" /\ BackslashRun(s, i, j) % 2 = 0}
    IN  IF C = {} THEN 0 ELSE CHOOSE j \in C : \A h \in C : j <= h

UnescapeChar(c) ==
    CASE c = "n" -> "\n" [] c = "r" -> "\r" [] c = "t" -> "\t" [] OTHER -> c

\* the characters the escaped text s[a..b] stands for
RECURSIVE Unescape(_, _, _)
Unescape(s, a, b) ==
    LET P == {k \in a..b : s[k] = "\\"}
    IN  IF P = {} THEN SubSeq(s, a, b)
        ELSE LET p == CHOOSE k \in P : \A h \in P : k <= h
             IN  SubSeq(s, a, p - 1) \o <<UnescapeChar(At(s, p + 1))>>
                 \o Unescape(s, p + 2, b)

\* what json.loads returns: a str, an int or a list of such values
JString(x) == [t |-> "str", s |-> x, n |-> 0, items |-> <<>>]
JInt(k) == [t |-> "int", s |-> <<>>, n |-> k, items |-> <<>>]
JList(items) == [t |-> "list", s |-> <<>>, n |-> 0, items |-> items]

\* json.JSONDecodeError
JSONDecodeError == [ok |-> FALSE, v |-> JInt(0), next |-> 0]

\* the end of the integer that starts at position from: "0", or a run of digits
IntEnd(s, from) ==
    LET E == {j \in from..Len(s) : \A k \in from..j : IsDigit(s[k])}
    IN  IF E = {} THEN 0
        ELSE IF s[from] = "0" THEN from
             ELSE CHOOSE j \in E : \A h \in E : j >= h

\* the value that starts at position i, and the position after it
RECURSIVE json_value(_, _)
RECURSIVE json_items(_, _, _)
json_value(s, i) ==
    IF At(s, i) = "\""
    THEN LET e == StringEnd(s, i)
         IN  IF e = 0 THEN JSONDecodeError
             ELSE [ok |-> TRUE, v |-> JString(Unescape(s, i + 1, e - 1)), next |-> e + 1]
    ELSE IF At(s, i) = "["
         THEN IF At(s, i + 1) = "]"
              THEN [ok |-> TRUE, v |-> JList(<<>>), next |-> i + 2]
              ELSE json_items(s, i + 1, <<>>)
         ELSE LET from == IF At(s, i) = "-" THEN i + 1 ELSE i
                  e == IntEnd(s, from)
              IN  IF e = 0 THEN JSONDecodeError
                  ELSE [ok |-> TRUE,
                        v |-> JInt(IF from > i THEN 0 - ParseNat(SubSeq(s, from, e))
                                   ELSE ParseNat(SubSeq(s, from, e))),
                        next |-> e + 1]

\* the elements of an array from position i to its closing bracket
json_items(s, i, acc) ==
    LET item == json_value(s, i)
    IN  IF ~item.ok THEN JSONDecodeError
        ELSE IF At(s, item.next) = ","
             THEN json_items(s, item.next + 1, Append(acc, item.v))
             ELSE IF At(s, item.next) = "]"
                  THEN [ok |-> TRUE, v |-> JList(Append(acc, item.v)),
                        next |-> item.next + 1]
                  ELSE JSONDecodeError

\* json.loads(s): the whole text is one value, or JSONDecodeError
json_loads(s) ==
    LET r == json_value(s, 1)
    IN  IF r.ok /\ r.next = Len(s) + 1 THEN r ELSE JSONDecodeError

-----------------------------------------------------------------------------
(* services/search.py: get_case_by_id, and models.py: CaseDetail *)

\* try: judges = json.loads(case.judges) / except json.JSONDecodeError:
\* judges = [case.judges]
ParsedJudges(raw) ==
    LET r == json_loads(raw)
    IN  IF r.ok THEN r.v ELSE JList(<<JString(raw)>>)

\* judges: Optional[list[str]]: a list whose items are all str
ValidJudges(v) == v.t = "list" /\ \A k \in 1..Len(v.items) : v.items[k].t = "str"

\* get_case_by_id: None, a CaseDetail, or the ValidationError CaseDetail raises
get_case_by_id(table, case_id) ==
    LET found == {i \in 1..Len(table) : table[i].id = case_id}
    IN  IF found = {} THEN [kind |-> "None"]
        ELSE LET case == table[CHOOSE i \in found : TRUE]
                 judges == IF Truthy(case.judges)
                           THEN Some(ParsedJudges(Val(case.judges))) ELSE None
             IN  IF judges # None /\ ~ValidJudges(Val(judges))
                 THEN [kind |-> "ValidationError"]
                 ELSE [kind |-> "CaseDetail", id |-> case.id, title |-> case.title,
                       citation |-> case.citation, court |-> case.court,
                       date |-> case.date,
                       judges |-> IF judges = None THEN None
                                  ELSE Some([k \in 1..Len(Val(judges).items) |->
                                                Val(judges).items[k].s]),
                       headnote |-> case.headnote, text |-> case.text,
                       citations_found |-> None]

-----------------------------------------------------------------------------
(* main.py *)

per_page_default == 20
per_page_max == 100

\* limit: int = Query(1000, ge=1, le=10000)
\* @limiter.limit("60/minute") and @limiter.limit("10/minute")
SearchRateLimit == 60
ExportRateLimit == 10

ExportLimitDefault == 1000
ExportLimitMin == 1
ExportLimitMax == 10000

\* PlainTextResponse(content=..., media_type=..., headers={...}) of an export
PlainTextResponse(content, media_type, count, suffix) ==
    [kind |-> "PlainTextResponse", content |-> content, media_type |-> media_type,
     content_disposition |->
         <<"a", "t", "t", "a", "c", "h", "m", "e", "n", "t", ";", " ",
           "f", "i", "l", "e", "n", "a", "m", "e", "=",
           "l", "e", "g", "a", "l", "-", "e", "x", "p", "o", "r", "t", "-">>
         \o str(count) \o suffix,
     x_export_count |-> str(count)]

\* the parameters search_cases declares
SearchCasesParameters ==
    {"db", "query", "court", "year", "date_from", "date_to", "page", "per_page"}

\* the keyword arguments the search endpoint calls it with
SearchEndpointKeywords ==
    {"db", "query", "court", "year", "date_from", "date_to", "page", "per_page",
     "highlight"}

-----------------------------------------------------------------------------
(* The calls *)

\* GET /api/v1/search: per_page defaulted and capped, then search_cases called
\* with the endpoint's keywords.  A keyword search_cases does not declare makes
\* the call raise TypeError before its body runs; nothing handles it and the
\* client receives 500.
SearchEndpoint ==
    /\ req.op = "GET /api/v1/search"
    /\ pc = "start"
    /\ LET defaulted == IF req.per_page = None \/ Val(req.per_page) = 0
                        THEN per_page_default ELSE Val(req.per_page)
           capped == Min(defaulted, per_page_max)
       IN  IF SearchEndpointKeywords \subseteq SearchCasesParameters
           THEN /\ req' = [req EXCEPT !.op = "search_cases", !.per_page = capped]
                /\ UNCHANGED <<pc, resp>>
           ELSE /\ resp' = [kind |-> "HTTP 500"]
                /\ pc' = "done"
                /\ UNCHANGED req
    /\ UNCHANGED <<store, total>>
    /\ UNCHANGED hlVars
    /\ UNCHANGED <<mwVars, concVars>>

\* search_cases up to its first read of the store: the count
SearchCasesCount ==
    /\ req.op = "search_cases"
    /\ pc = "start"
    /\ total' = CountMatching(store, req)
    /\ pc' = "counted"
    /\ UNCHANGED <<store, req, resp>>
    /\ UNCHANGED hlVars
    /\ UNCHANGED <<mwVars, concVars>>

\* search_cases from its second read of the store, the page, to its return
SearchCasesPage ==
    /\ req.op = "search_cases"
    /\ pc = "counted"
    /\ resp' = SearchResponse(total, req, PageRows(store, req))
    /\ pc' = "done"
    /\ UNCHANGED <<store, req, total>>
    /\ UNCHANGED hlVars
    /\ UNCHANGED <<mwVars, concVars>>

\* _fetch_export_rows: one read of the store
FetchExportRows ==
    /\ req.op = "_fetch_export_rows"
    /\ pc = "start"
    /\ resp' = [kind |-> "rows", rows |-> fetch_export_rows(store, req)]
    /\ pc' = "done"
    /\ UNCHANGED <<store, req, total>>
    /\ UNCHANGED hlVars
    /\ UNCHANGED <<mwVars, concVars>>

Next == SearchEndpoint \/ SearchCasesCount \/ SearchCasesPage \/ FetchExportRows

\* the limit an export endpoint received, defaulted
ExportLimit(r) == IF r.limit = None THEN ExportLimitDefault ELSE Val(r.limit)

\* ge=1, le=10000
ExportLimitValid(limit) == limit >= ExportLimitMin /\ limit <= ExportLimitMax

\* GET /api/v1/export/csv: a limit outside 1..10000 is rejected by the request
\* parsing with 422; otherwise export_cases_csv, one read of the store
ExportCsv ==
    /\ req.op = "GET /api/v1/export/csv"
    /\ pc = "start"
    /\ resp' =
         IF ExportLimitValid(ExportLimit(req))
         THEN LET out == export_cases_csv(store, [req EXCEPT !.limit = ExportLimit(req)])
              IN  PlainTextResponse(out.text, "text/csv", out.count,
                      <<"-", "c", "a", "s", "e", "s", ".", "c", "s", "v">>)
         ELSE [kind |-> "HTTP 422"]
    /\ pc' = "done"
    /\ UNCHANGED <<store, req, total>>
    /\ UNCHANGED hlVars
    /\ UNCHANGED <<mwVars, concVars>>

\* GET /api/v1/export/jsonl
ExportJsonl ==
    /\ req.op = "GET /api/v1/export/jsonl"
    /\ pc = "start"
    /\ resp' =
         IF ExportLimitValid(ExportLimit(req))
         THEN LET out == export_cases_jsonl(store, [req EXCEPT !.limit = ExportLimit(req)])
              IN  PlainTextResponse(out.text, "application/x-ndjson", out.count,
                      <<"-", "c", "a", "s", "e", "s", ".", "j", "s", "o", "n", "l">>)
         ELSE [kind |-> "HTTP 422"]
    /\ pc' = "done"
    /\ UNCHANGED <<store, req, total>>
    /\ UNCHANGED hlVars
    /\ UNCHANGED <<mwVars, concVars>>

NextExport == FetchExportRows \/ ExportCsv \/ ExportJsonl

\* GET /api/v1/cases/{case_id}: 404 when there is no such case; an exception
\* get_case_by_id raises is not handled and the client receives 500
GetCase ==
    /\ req.op = "GET /api/v1/cases/{case_id}"
    /\ pc = "start"
    /\ resp' =
         LET case == get_case_by_id(store, req.case_id)
         IN  IF case.kind = "None" THEN [kind |-> "HTTP 404"]
             ELSE IF case.kind = "ValidationError" THEN [kind |-> "HTTP 500"]
                  ELSE case
    /\ pc' = "done"
    /\ UNCHANGED <<store, req, total>>
    /\ UNCHANGED hlVars
    /\ UNCHANGED <<mwVars, concVars>>

NextCase == GetCase

\* GET /health
Health ==
    /\ req.op = "GET /health"
    /\ pc = "start"
    /\ resp' = [kind |-> "JSON", status |-> "healthy"]
    /\ pc' = "done"
    /\ UNCHANGED <<store, req, total>>
    /\ UNCHANGED hlVars
    /\ UNCHANGED <<mwVars, concVars>>

-----------------------------------------------------------------------------
(* The table written by the external loading process while a search runs.    *)
(* search_cases reads the table in two separate statements, the count and    *)
(* the page; each sees the rows committed when it runs.                      *)

\* the title a loaded row gets: one the query matches, one it does not
IngestTitles == {<<"a">>, <<"b">>}

IngestRow(id, title) == Case(id, title, None, None, None, None, None, None, None)

UsedIds(table) == {table[i].id : i \in 1..Len(table)}

Remove(table, i) == SubSeq(table, 1, i - 1) \o SubSeq(table, i + 1, Len(table))

\* INSERT of a row under an unused primary key
IngestInsert ==
    /\ pc \in {"start", "counted"}
    /\ Len(store) < MaxStore
    /\ \E i \in 1..MaxStore : \E t \in IngestTitles :
          /\ str(i) \notin UsedIds(store)
          /\ store' = Append(store, IngestRow(str(i), t))
    /\ UNCHANGED <<req, pc, total, resp>>
    /\ UNCHANGED hlVars
    /\ UNCHANGED <<mwVars, concVars>>

\* UPDATE of one row's title
IngestUpdate ==
    /\ pc \in {"start", "counted"}
    /\ \E i \in 1..Len(store) : \E t \in IngestTitles :
          /\ store[i].title # t
          /\ store' = [store EXCEPT ![i].title = t]
    /\ UNCHANGED <<req, pc, total, resp>>
    /\ UNCHANGED hlVars
    /\ UNCHANGED <<mwVars, concVars>>

\* DELETE of one row
IngestDelete ==
    /\ pc \in {"start", "counted"}
    /\ \E i \in 1..Len(store) : store' = Remove(store, i)
    /\ UNCHANGED <<req, pc, total, resp>>
    /\ UNCHANGED hlVars
    /\ UNCHANGED <<mwVars, concVars>>

NextIngest ==
    \/ SearchCasesCount \/ SearchCasesPage
    \/ IngestInsert \/ IngestUpdate \/ IngestDelete

-----------------------------------------------------------------------------
(* Several requests in flight: each has its own parameters and its own       *)
(* database session (get_db); the limiter's counters are shared              *)

\* what a route answers a request that is served on its own over a table
Serve(table, r) ==
    CASE r.op = "GET /api/v1/search" ->
            IF SearchEndpointKeywords \subseteq SearchCasesParameters
            THEN LET defaulted == IF r.per_page = None \/ Val(r.per_page) = 0
                                  THEN per_page_default ELSE Val(r.per_page)
                     call == [r EXCEPT !.op = "search_cases",
                                       !.per_page = Min(defaulted, per_page_max)]
                 IN  SearchResponse(CountMatching(table, call), call,
                                    PageRows(table, call))
            ELSE [kind |-> "HTTP 500"]
      [] r.op = "GET /api/v1/export/csv" ->
            IF ExportLimitValid(ExportLimit(r))
            THEN LET out == export_cases_csv(table, [r EXCEPT !.limit = ExportLimit(r)])
                 IN  PlainTextResponse(out.text, "text/csv", out.count,
                         <<"-", "c", "a", "s", "e", "s", ".", "c", "s", "v">>)
            ELSE [kind |-> "HTTP 422"]
      [] r.op = "GET /api/v1/cases/{case_id}" ->
            LET case == get_case_by_id(table, r.case_id)
            IN  IF case.kind = "None" THEN [kind |-> "HTTP 404"]
                ELSE IF case.kind = "ValidationError" THEN [kind |-> "HTTP 500"]
                     ELSE case

\* the routes decorated with a limit, and their ceilings per minute
LimitedRoutes == {"GET /api/v1/search", "GET /api/v1/export/csv"}

RateLimit(op) ==
    IF op = "GET /api/v1/search" THEN SearchRateLimit ELSE ExportRateLimit

\* the request parsing accepts the parameters; it runs before the decorated
\* function and so before the limiter counts the request
Valid(r) == r.op = "GET /api/v1/export/csv" => ExportLimitValid(ExportLimit(r))

\* a limiter that lets one request more through
RateLimitOffByOne(hits, ceiling) == hits > ceiling
\* the limiter's test of one more hit against the window's count
RateLimitExceeded(hits, ceiling) == hits >= ceiling

FreeSlot == [req |-> [op |-> "none"], pc |-> "free", resp |-> [kind |-> "none"]]

\* A request arrives while others are in flight.  Invalid parameters are
\* answered 422; on a limited route the hit is counted and, when the window's
\* count had reached the ceiling, answered 429; otherwise the handler starts.
Arrive(k, r) ==
    /\ inflight[k].pc = "free"
    /\ IF ~Valid(r)
       THEN /\ inflight' = [inflight EXCEPT ![k] =
                   [req |-> r, pc |-> "done", resp |-> [kind |-> "HTTP 422"]]]
            /\ UNCHANGED limiter
       ELSE IF r.op \in LimitedRoutes
            THEN /\ limiter[r.op] < RateLimit(r.op) + MaxOver
                 /\ limiter' = [limiter EXCEPT ![r.op] = @ + 1]
                 /\ inflight' = [inflight EXCEPT ![k] =
                        IF RateLimitExceeded(limiter[r.op], RateLimit(r.op))
                        THEN [req |-> r, pc |-> "done", resp |-> [kind |-> "HTTP 429"]]
                        ELSE [req |-> r, pc |-> "start", resp |-> [kind |-> "none"]]]
            ELSE /\ inflight' = [inflight EXCEPT ![k] =
                        [req |-> r, pc |-> "start", resp |-> [kind |-> "none"]]]
                 /\ UNCHANGED limiter
    /\ UNCHANGED storeVars
    /\ UNCHANGED hlVars
    /\ UNCHANGED mwVars

\* the handler of one request in flight runs over the store
Handle(k) ==
    /\ inflight[k].pc = "start"
    /\ inflight' = [inflight EXCEPT ![k].pc = "done",
                                    ![k].resp = Serve(store, inflight[k].req)]
    /\ UNCHANGED limiter
    /\ UNCHANGED storeVars
    /\ UNCHANGED hlVars
    /\ UNCHANGED mwVars

\* the response leaves; the request is over
Respond(k) ==
    /\ inflight[k].pc = "done"
    /\ inflight' = [inflight EXCEPT ![k] = FreeSlot]
    /\ UNCHANGED limiter
    /\ UNCHANGED storeVars
    /\ UNCHANGED hlVars
    /\ UNCHANGED mwVars

\* the limiter's one-minute window ends: its counts start again
WindowExpires ==
    /\ \E o \in LimitedRoutes : limiter[o] > 0
    /\ limiter' = [o \in LimitedRoutes |-> 0]
    /\ UNCHANGED inflight
    /\ UNCHANGED storeVars
    /\ UNCHANGED hlVars
    /\ UNCHANGED mwVars

-----------------------------------------------------------------------------
(* middleware.py: RequestLoggingMiddleware.dispatch around a handler *)

\* values str(uuid.uuid4()) may take
UUIDs == {<<"u", "1">>, <<"u", "2">>}

\* values round((time.perf_counter() - start) * 1000, 2) may take, in
\* hundredths of a millisecond
Durations == {5, 100, 120}

\* f"{duration_ms}ms" of that float: the shortest decimal that reads back
FormatMs(h) ==
    str(h \div 100) \o <<".">>
    \o (IF h % 10 = 0 THEN str((h % 100) \div 10)
        ELSE str((h % 100) \div 10) \o str(h % 10))
    \o <<"m", "s">>

\* the handler ended by raising an exception that no exception handler is
\* registered for
Raised(r) == r.kind = "HTTP 500"

StatusOf(r) ==
    CASE r.kind = "HTTP 404" -> 404
      [] r.kind = "HTTP 422" -> 422
      [] r.kind = "HTTP 429" -> 429
      [] r.kind = "HTTP 500" -> 500
      [] OTHER -> 200

\* dispatch up to `await call_next(request)`:
\* request_id = request.headers.get("X-Request-ID") or str(uuid.uuid4())
DispatchBegin ==
    /\ pc = "received"
    /\ \E fresh \in UUIDs :
          request_id' = IF Truthy(headers.x_request_id)
                        THEN Val(headers.x_request_id) ELSE fresh
    /\ pc' = "start"
    /\ UNCHANGED <<store, req, total, resp, headers, sent>>
    /\ UNCHANGED hlVars
    /\ UNCHANGED concVars

\* dispatch after call_next: the two headers are set on the response it
\* returned.  When the handler raised, call_next raises too, the rest of
\* dispatch does not run, and the client receives the server's plain 500.
DispatchEnd ==
    /\ pc = "done"
    /\ \E d \in Durations :
          sent' = IF Raised(resp)
                  THEN Some([status |-> 500, body |-> resp,
                             x_request_id |-> None, x_response_time |-> None])
                  ELSE Some([status |-> StatusOf(resp), body |-> resp,
                             x_request_id |-> Some(request_id),
                             x_response_time |-> Some(FormatMs(d))])
    /\ pc' = "sent"
    /\ UNCHANGED <<store, req, total, resp, headers, request_id>>
    /\ UNCHANGED hlVars
    /\ UNCHANGED concVars

NextMW ==
    \/ DispatchBegin
    \/ SearchEndpoint \/ GetCase \/ ExportCsv \/ Health
    \/ DispatchEnd

IdleHL ==
    /\ hl_text = None
    /\ hl_query = <<>>
    /\ hl_max_length = 1
    /\ hl_result = None
    /\ hl_pc = "idle"

\* a call and its arguments; the endpoint's per_page is optional
Request(op, q, court, year, date_from, date_to, page, per_page, highlight, limit) ==
    [op |-> op, q |-> q, court |-> court, year |-> year, date_from |-> date_from,
     date_to |-> date_to, page |-> page, per_page |-> per_page,
     highlight |-> highlight, limit |-> limit]

Digits == <<"1", "2", "3", "4", "5", "6", "7", "8", "9">>
Digit(i) == <<Digits[i]>>

\* rows numbered in store order: the primary key is unique
WithIds(rows) == [i \in 1..Len(rows) |-> [rows[i] EXCEPT !.id = Digit(i)]]

Tables(variants, n) == {WithIds(rows) : rows \in UNION {[1..k -> variants] : k \in 0..n}}

PerPages == (1..MaxPerPage) \cup {per_page_default, per_page_max}

\* the calls of one operation each, over the given argument sets
Requests(qs, years, pages, per_pages) ==
    {Request("search_cases", q, None, y, None, None, p, pp, TRUE, 1) :
        q \in qs, y \in years, p \in pages, pp \in per_pages}
    \cup {Request("GET /api/v1/search", q, None, y, None, None, p, pp, h, 1) :
        q \in qs, y \in years, p \in pages,
        pp \in {None, Some(per_page_max)}, h \in BOOLEAN}
    \cup {Request("_fetch_export_rows", q, None, y, None, None, 1, 1, TRUE, l) :
        q \in qs, y \in years, l \in 1..(MaxStore + 1)}

-----------------------------------------------------------------------------
(* Spec: tables of a few rows, searched and paged with a year filter *)

Years == {-1, 0, 2024}

PagingRows ==
    {Case(<<>>, <<"a">>, None, None, None, y, None, None, None) :
        y \in {None, Some(0), Some(2024)}}
    \cup {Case(<<>>, <<"b">>, None, None, None, Some(2024), None, None, None)}

Init ==
    /\ store \in Tables(PagingRows, MaxStore)
    /\ req \in Requests({<<"a">>, <<>>}, {None} \cup {Some(y) : y \in Years},
                        1..MaxPage, PerPages)
    /\ pc = "start"
    /\ total = 0
    /\ resp = [kind |-> "none"]
    /\ IdleHL
    /\ IdleMW
    /\ IdleConc

Spec == Init /\ [][Next]_vars

-----------------------------------------------------------------------------
(* SpecSnippet: one row with every kind of headnote and text, searched *)

Long(n) == [i \in 1..n |-> "a"]

SnippetTexts ==
    {None, Some(<<>>), Some(<<"a", "b">>)}
    \cup {Some(Long(n)) : n \in (SnippetChars - 1)..(SnippetChars + MaxOver)}

SnippetRows ==
    {Case(<<>>, <<"a">>, None, None, None, None, None, h, t) :
        h \in {None, Some(<<>>), Some(<<"a", ".">>)}, t \in SnippetTexts}

InitSnippet ==
    /\ store \in Tables(SnippetRows, 1)
    /\ req \in Requests({<<"a">>, <<>>}, {None}, {1}, {1, per_page_default})
    /\ pc = "start"
    /\ total = 0
    /\ resp = [kind |-> "none"]
    /\ IdleHL
    /\ IdleMW
    /\ IdleConc

SpecSnippet == InitSnippet /\ [][Next]_vars

-----------------------------------------------------------------------------
(* SpecFilter: one row with one text field set, searched for every pattern *)

FieldChars == {"a", "A", "b", "%"}
PatternChars == {"a", "b", "%", "_"}

FilterRows ==
    UNION {{Case(<<>>, f, None, None, None, None, None, None, None),
            Case(<<>>, <<>>, Some(f), None, None, None, None, None, None),
            Case(<<>>, <<>>, None, None, None, None, None, Some(f), None),
            Case(<<>>, <<>>, None, None, None, None, None, None, Some(f))} :
           f \in Strings(FieldChars, MaxFieldLen)}

InitFilter ==
    /\ store \in Tables(FilterRows, 1)
    /\ req \in Requests(Strings(PatternChars, MaxPatternLen), {None}, {1}, {1})
    /\ pc = "start"
    /\ total = 0
    /\ resp = [kind |-> "none"]
    /\ IdleHL
    /\ IdleMW
    /\ IdleConc

SpecFilter == InitFilter /\ [][Next]_vars

-----------------------------------------------------------------------------
(* SpecExport: rows whose fields hold commas, quotes, backslashes and line   *)
(* breaks, exported as CSV and JSONL; and one table larger than the cap      *)

\* field contents the serializers have to quote or escape
Tricky ==
    {<<"a">>, <<",">>, <<"\"">>, <<"\n">>, <<"\\">>, <<"a", "\r", "\n", "\"">>}

ExportRows ==
    {Case(<<>>, t, None, None, None, None, None, None, None) : t \in Tricky}
    \cup {Case(<<>>, <<"a">>, None, None, None, None, None,
               Some(Long(CsvHeadnoteChars + MaxOver)), None),
          Case(<<>>, <<"a">>, None, None, None, Some(0), None, None, None),
          Case(<<>>, <<"a">>, None, None, None, Some(-1), None, Some(<<>>), None),
          Case(<<>>, <<"b">>, Some(<<",">>), Some(<<"\"">>), Some(<<"\n">>),
               Some(2024), Some(<<"\\">>), Some(<<"a", "\r", "\n", "\"">>),
               Some(<<"a">>))}

\* more rows than one export may return, all of them matching
BigTable ==
    [i \in 1..(MAX_EXPORT_ROWS + MaxOver) |->
        Case(str(i), <<"a">>, None, None, None, None, None, None, None)]

ExportLimits ==
    (0..(MaxExported + 1))
    \cup {MAX_EXPORT_ROWS, MAX_EXPORT_ROWS + MaxOver, 5 * MAX_EXPORT_ROWS}

\* the export calls: the two endpoints and the query they share
ExportRequests(qs) ==
    {Request(op, q, None, None, None, None, 1, 1, TRUE, l) :
        op \in {"GET /api/v1/export/csv", "GET /api/v1/export/jsonl"},
        q \in qs, l \in {None} \cup {Some(n) : n \in ExportLimits}}
    \cup {Request("_fetch_export_rows", q, None, None, None, None, 1, 1, TRUE, l) :
        q \in qs, l \in ExportLimits \ {0}}

InitExport ==
    /\ \/ /\ store \in Tables(ExportRows, MaxExported)
          /\ req \in ExportRequests({<<"a">>, <<>>})
       \/ /\ store = BigTable
          /\ req \in ExportRequests({<<"a">>, <<>>})
          /\ req.op = "_fetch_export_rows"
    /\ pc = "start"
    /\ total = 0
    /\ resp = [kind |-> "none"]
    /\ IdleHL
    /\ IdleMW
    /\ IdleConc

SpecExport == InitExport /\ [][NextExport]_vars

-----------------------------------------------------------------------------
(* SpecCase: one case with every short judges string, fetched by id *)

JudgesChars == {"[", "]", "\"", ",", "a", "1"}

CaseRows ==
    {Case(<<>>, <<"a">>, None, None, None, None, j, None, None) :
        j \in {None} \cup {Some(x) : x \in Strings(JudgesChars, MaxJudgesLen)}}

CaseRequests ==
    {[op |-> "GET /api/v1/cases/{case_id}", case_id |-> Digit(i)] : i \in 1..2}

InitCase ==
    /\ store \in Tables(CaseRows, 1)
    /\ req \in CaseRequests
    /\ pc = "start"
    /\ total = 0
    /\ resp = [kind |-> "none"]
    /\ IdleHL
    /\ IdleMW
    /\ IdleConc

SpecCase == InitCase /\ [][NextCase]_vars

-----------------------------------------------------------------------------
(* SpecMW: requests to the routes, with and without a client request id,     *)
(* passing through the middleware                                            *)

MWRows ==
    {Case(<<>>, <<"a">>, None, None, None, None, j, None, None) :
        j \in {None, Some(<<"1">>), Some(<<"[", "]">>)}}

MWRequests ==
    {Request("GET /api/v1/search", <<"a">>, None, None, None, None, 1, None, TRUE, None),
     Request("GET /api/v1/export/csv", <<"a">>, None, None, None, None, 1, 1, TRUE, None),
     Request("GET /api/v1/export/csv", <<"a">>, None, None, None, None, 1, 1, TRUE, Some(0)),
     [op |-> "GET /health"]}
    \cup CaseRequests

InitMW ==
    /\ store \in Tables(MWRows, 1)
    /\ req \in MWRequests
    /\ headers \in {[x_request_id |-> h] : h \in {None, Some(<<>>), Some(<<"c">>)}}
    /\ request_id = <<>>
    /\ sent = None
    /\ pc = "received"
    /\ total = 0
    /\ resp = [kind |-> "none"]
    /\ IdleHL
    /\ IdleConc

SpecMW == InitMW /\ [][NextMW]_vars

-----------------------------------------------------------------------------
(* SpecConc: requests of one client address in flight at once over an        *)
(* unchanged store                                                           *)

ConcRequests ==
    {Request("GET /api/v1/search", <<"a">>, None, None, None, None, 1, None, TRUE, None),
     Request("GET /api/v1/export/csv", <<"a">>, None, None, None, None, 1, 1, TRUE, None),
     Request("GET /api/v1/export/csv", <<"a">>, None, None, None, None, 1, 1, TRUE, Some(0)),
     [op |-> "GET /api/v1/cases/{case_id}", case_id |-> Digit(1)]}

InitConc ==
    /\ store = WithIds(<<Case(<<>>, <<"a">>, None, None, None, None, None, None, None)>>)
    /\ req = [op |-> "none"]
    /\ pc = "idle"
    /\ total = 0
    /\ resp = [kind |-> "none"]
    /\ limiter = [o \in LimitedRoutes |-> 0]
    /\ inflight = [k \in 1..MaxInflight |-> FreeSlot]
    /\ IdleHL
    /\ IdleMW

NextConc ==
    \/ \E k \in 1..MaxInflight : \E r \in ConcRequests : Arrive(k, r)
    \/ \E k \in 1..MaxInflight : Handle(k)
    \/ \E k \in 1..MaxInflight : Respond(k)
    \/ WindowExpires

SpecConc == InitConc /\ [][NextConc]_vars

-----------------------------------------------------------------------------
(* SpecIngest: a search while the table is being loaded *)

InitIngest ==
    /\ store \in Tables({IngestRow(<<>>, t) : t \in IngestTitles}, MaxStore - 1)
    /\ req \in {Request("search_cases", <<"a">>, None, None, None, None, p, pp, TRUE, 1) :
                   p \in 1..2, pp \in 1..MaxPerPage}
    /\ pc = "start"
    /\ total = 0
    /\ resp = [kind |-> "none"]
    /\ IdleHL
    /\ IdleMW
    /\ IdleConc

SpecIngest == InitIngest /\ [][NextIngest]_vars

-----------------------------------------------------------------------------
(* SpecSame: every filter argument absent, empty and set, for search and     *)
(* for export over the same tables                                           *)

SameRows ==
    {Case(<<>>, t, None, c, d, y, None, None, None) :
        t \in {<<"a">>, <<"b">>}, c \in {None, Some(<<"a">>)},
        d \in {None, Some(<<"1">>), Some(<<"2">>)}, y \in {None, Some(0), Some(2024)}}

\* search_cases and _fetch_export_rows with the same filter arguments; the
\* export limit is never below the size of the table
SameRequests ==
    {Request(op, q, c, y, df, dt, 1, per_page_max, TRUE, MaxSame + 1) :
        op \in {"search_cases", "_fetch_export_rows"},
        q \in {<<>>, <<"a">>},
        c \in {None, Some(<<>>), Some(<<"a">>)},
        y \in {None, Some(0), Some(2024)},
        df \in {None, Some(<<>>), Some(<<"2">>)},
        dt \in {None, Some(<<>>), Some(<<"1">>)}}
    \cup {Request("GET /api/v1/search", <<"a">>, None, None, None, None, 1, None, h, 1) :
             h \in BOOLEAN}

InitSame ==
    /\ store \in Tables(SameRows, MaxSame)
    /\ req \in SameRequests
    /\ pc = "start"
    /\ total = 0
    /\ resp = [kind |-> "none"]
    /\ IdleHL
    /\ IdleMW
    /\ IdleConc

SpecSame == InitSame /\ [][Next]_vars

-----------------------------------------------------------------------------
(* Vocabulary of the properties *)

Contains(s, sub) ==
    \E i \in 1..(Len(s) - Len(sub) + 1) : SubSeq(s, i, i + Len(sub) - 1) = sub
BeginsWith(s, p) == Len(s) >= Len(p) /\ SubSeq(s, 1, Len(p)) = p
EndsWith(s, p) == Len(s) >= Len(p) /\ SubSeq(s, Len(s) - Len(p) + 1, Len(s)) = p

\* x is y up to letter case
FoldEq(x, y) == Len(x) = Len(y) /\ \A k \in 1..Len(x) : Lower(x[k]) = Lower(y[k])

-----------------------------------------------------------------------------
(* Properties of the search and export calls *)

SearchDone == pc = "done" /\ resp.kind = "SearchResponse"
ExportDone == pc = "done" /\ resp.kind = "rows"

\* the row of the table a result was made from
RowOf(result) == CHOOSE i \in 1..Len(store) : store[i].id = result.id

\* C1: every GET /api/v1/search with a valid q completes with a search
\* response whose snippets are highlight(snippet, q) when the highlight flag is
\* set and a snippet exists, and the plain snippet when highlight is false.
C1_SearchHighlights ==
    (req.op = "GET /api/v1/search" /\ req.q # <<>> /\ pc = "done") =>
        /\ resp.kind = "SearchResponse"
        /\ \A i \in 1..Len(resp.results) :
              LET base == Snippet(store[RowOf(resp.results[i])])
              IN  resp.results[i].snippet =
                     IF req.highlight /\ base # None
                     THEN highlight_snippet(base, req.q, DefaultMaxLength, Mark)
                     ELSE base

\* q occurs in s as a contiguous substring, ignoring case
OccursIn(q, s) == \E m \in 0..(Len(s) - Len(q)) : FoldEq(PySlice(s, m, m + Len(q)), q)

StatedTextMatch(case, q) ==
    \E f \in {Some(case.title), case.headnote, case.text, case.citation} :
        f # None /\ OccursIn(q, Val(f))

\* C2: for a non-empty query the text condition holds of a row exactly when
\* the query occurs as a literal, case-insensitive, contiguous substring of
\* its title, headnote, text or citation; "%" and "_" are ordinary characters.
C2_LiteralSubstring ==
    (req.op = "search_cases" /\ pc = "done" /\ req.q # <<>>) =>
        resp.total = Cardinality({i \in 1..Len(store) : StatedTextMatch(store[i], req.q)})

\* C3: when a year is supplied to search or export, 0 and negative values
\* included, every returned row has exactly that year.
C3_YearExact ==
    /\ (SearchDone /\ req.year # None) =>
          \A i \in 1..Len(resp.results) :
              store[RowOf(resp.results[i])].year = req.year
    /\ (ExportDone /\ req.year # None) =>
          \A i \in 1..Len(resp.rows) : resp.rows[i].year = req.year

\* C4: the total search_cases returns is the number of rows of the table that
\* satisfy the filter, whatever page >= 1 and per_page are, pages past the last
\* included.
C4_TotalIsMatchCount ==
    SearchDone =>
        resp.total =
            Cardinality({i \in 1..Len(store) :
                SearchWhere(store[i], req.q, req.court, req.year,
                            req.date_from, req.date_to)})

\* a page past the last one of a non-empty matching set
C4_Witness ==
    /\ SearchDone
    /\ resp.total >= 2
    /\ (req.page - 1) * req.per_page >= resp.total
    /\ resp.results = <<>>

\* C5: total_pages is the ceiling of total / per_page, and is 0 exactly when
\* total is 0.
C5_TotalPagesIsCeiling ==
    SearchDone =>
        /\ resp.total_pages * resp.per_page >= resp.total
        /\ (resp.total_pages - 1) * resp.per_page < resp.total
        /\ resp.total_pages = 0 <=> resp.total = 0

\* a last page that is not full, after a full one
C5_Witness ==
    /\ SearchDone
    /\ resp.total > resp.per_page
    /\ resp.total % resp.per_page # 0
    /\ resp.total_pages = 2

StatedSnippet(case) ==
    IF Truthy(case.headnote) THEN case.headnote
    ELSE IF Truthy(case.text)
         THEN IF Len(Val(case.text)) > SnippetChars
              THEN Some(PySlice(Val(case.text), 0, SnippetChars) \o Ellipsis)
              ELSE case.text
         ELSE None

\* C6: the snippet of a result is the headnote if present and non-empty;
\* otherwise, for a present non-empty text, its first 300 characters plus
\* "..." when it is longer than 300 and the text unchanged when it is not;
\* otherwise absent.
C6_SnippetAsStated ==
    SearchDone =>
        \A i \in 1..Len(resp.results) :
            resp.results[i].snippet = StatedSnippet(store[RowOf(resp.results[i])])

-----------------------------------------------------------------------------
(* Properties of highlight_snippet, checked under SpecHL *)

HLDone == hl_pc = "done"
HLTokens == Split(hl_query)

\* the 0-based positions of text at which token occurs, ignoring case
Occurrences(token, text) ==
    {m \in 0..(Len(text) - Len(token)) : FoldEq(PySlice(text, m, m + Len(token)), token)}

\* the window the specification describes, from the arguments alone
StatedStart ==
    LET text == Val(hl_text)
        P == UNION {Occurrences(HLTokens[t], text) : t \in 1..Len(HLTokens)}
    IN  IF P = {} THEN 0
        ELSE Max(0, (CHOOSE m \in P : \A n \in P : m <= n) - (hl_max_length \div 3))
StatedEnd == StatedStart + hl_max_length
StatedWindow == PySlice(Val(hl_text), StatedStart, StatedEnd)
StatedLead == IF StatedStart > 0 THEN Ellipsis ELSE <<>>
StatedTrail == IF StatedEnd < Len(Val(hl_text)) THEN Ellipsis ELSE <<>>

HasDot(s) == \E i \in 1..Len(s) : s[i] = "."
HLHighlights == HLDone /\ Truthy(hl_text) /\ HLTokens # <<>>

\* C7 as stated: for non-empty text and at least one token the output is built
\* from the window [start, start+max_length) of text, it begins with "..."
\* exactly when start > 0 and ends with "..." exactly when
\* start+max_length < len(text).  Stated here for the tokens that contain no
\* ".", which cannot touch the ellipsis (C8 is about those that do).
C7_AsStated ==
    (HLHighlights /\ \A t \in 1..Len(HLTokens) : ~HasDot(HLTokens[t])) =>
        /\ Val(hl_result) =
               WrapTokens(HLTokens, 1, Mark, StatedLead \o StatedWindow \o StatedTrail)
        /\ BeginsWith(Val(hl_result), Ellipsis) <=> StatedStart > 0
        /\ EndsWith(Val(hl_result), Ellipsis) <=> StatedEnd < Len(Val(hl_text))

\* C7 (amended): for non-empty text and at least one token the output is the
\* token-wrapping passes applied to lead + text[start:start+max_length] + trail,
\* where lead is "..." exactly when start > 0 and trail is "..." exactly when
\* start+max_length < len(text); and when no token contains "." and the window
\* neither begins nor ends with ".", the output itself begins with "..."
\* exactly when start > 0 and ends with "..." exactly when
\* start+max_length < len(text).
C7_WindowAndEllipsis ==
    HLHighlights =>
        /\ Val(hl_result) =
               WrapTokens(HLTokens, 1, Mark, StatedLead \o StatedWindow \o StatedTrail)
        /\ ( /\ \A t \in 1..Len(HLTokens) : ~HasDot(HLTokens[t])
             /\ StatedWindow[1] # "."
             /\ StatedWindow[Len(StatedWindow)] # "." )
           => /\ BeginsWith(Val(hl_result), Ellipsis) <=> StatedStart > 0
              /\ EndsWith(Val(hl_result), Ellipsis)
                    <=> StatedEnd < Len(Val(hl_text))

\* a match past the first third of the window: the text is cut before it
C7_Witness ==
    /\ HLHighlights
    /\ hl_max_length \div 3 > 0
    /\ StatedStart > 0
    /\ \A t \in 1..Len(HLTokens) : ~HasDot(HLTokens[t])
    /\ ~HasDot(StatedWindow)
    /\ BeginsWith(Val(hl_result), Ellipsis)
    /\ Contains(Val(hl_result), OpenTag(Mark))

\* C8 as stated: for a single-token query every occurrence of the token inside
\* the sliced window is wrapped in <mark>...</mark> with its casing kept, and
\* nothing outside the window is wrapped: the added leading and trailing "..."
\* stay as they are, whatever the token.
C8_EllipsisNeverWrapped ==
    (HLHighlights /\ Len(HLTokens) = 1) =>
        Val(hl_result) =
            StatedLead \o re_sub(HLTokens[1], Mark, StatedWindow) \o StatedTrail

\* some occurrence of token in the window appears wrapped in the output
WrappedInOutput(token) ==
    \E m \in Occurrences(token, StatedWindow) :
        Contains(Val(hl_result),
                 OpenTag(Mark) \o PySlice(StatedWindow, m, m + Len(token))
                               \o CloseTag(Mark))

TokenChars(token) == {Lower(token[k]) : k \in 1..Len(token)}
MarkupChars ==
    LET markup == OpenTag(Mark) \o CloseTag(Mark)
    IN  {Lower(markup[k]) : k \in 1..Len(markup)}

\* no token can match text that another pass wrote or wrapped, nor the ellipsis
NonInterfering(tokens) ==
    /\ \A i, j \in 1..Len(tokens) :
           i < j => TokenChars(tokens[i]) \cap TokenChars(tokens[j]) = {}
    /\ \A j \in 2..Len(tokens) : TokenChars(tokens[j]) \cap MarkupChars = {}
    /\ \A i \in 1..Len(tokens) : "." \notin TokenChars(tokens[i])

-----------------------------------------------------------------------------
(* Properties of the exports, checked under SpecExport *)

CsvDone ==
    pc = "done" /\ req.op = "GET /api/v1/export/csv" /\ resp.kind = "PlainTextResponse"
JsonlDone ==
    pc = "done" /\ req.op = "GET /api/v1/export/jsonl" /\ resp.kind = "PlainTextResponse"

\* the rows of the table the request's filter selects, by position
MatchingRows ==
    {i \in 1..Len(store) :
        ExportWhere(store[i], req.q, req.court, req.year, req.date_from, req.date_to)}

\* the line feeds of a CSV text that end a record: those outside quoted fields
CsvRecordEnds(s) ==
    {i \in 1..Len(s) :
        /\ s[i] = "\n"
        /\ Cardinality({j \in 1..(i - 1) : s[j] = "\""}) % 2 = 0}

\* the records of a CSV text after its header record
CsvDataRecords(s) == Cardinality(CsvRecordEnds(s)) - 1

\* the lines of a text whose lines are separated by "\n"
LineBreaks(s) == {i \in 1..Len(s) : s[i] = "\n"}
JsonlLines(s) == IF s = <<>> THEN 0 ELSE Cardinality(LineBreaks(s)) + 1

\* C11: for every export (CSV or JSONL) with requested limit L the returned
\* row count is the number of records serialized, is at most min(L, 10000) and
\* at most the number of matching records; a limit of 50000 never yields more
\* than 10000 rows.
C11_ExportRowCount ==
    /\ ExportDone =>
          /\ Len(resp.rows) <= Min(req.limit, 10000)
          /\ Len(resp.rows) <= Cardinality(MatchingRows)
    /\ CsvDone =>
          LET n == ParseNat(resp.x_export_count)
          IN  /\ n = CsvDataRecords(resp.content)
              /\ n <= Min(ExportLimit(req), 10000)
              /\ n <= Cardinality(MatchingRows)
    /\ JsonlDone =>
          LET n == ParseNat(resp.x_export_count)
          IN  /\ n = JsonlLines(resp.content)
              /\ n <= Min(ExportLimit(req), 10000)
              /\ n <= Cardinality(MatchingRows)

\* more than 10000 matching rows, more than 10000 asked for, 10000 returned
C11_Witness ==
    /\ ExportDone
    /\ req.limit > 10000
    /\ Cardinality(MatchingRows) > 10000
    /\ Len(resp.rows) = 10000

\* the header row as text
HeaderText == Join(<<",">>, ExportColumns)

\* the first line of a text, without its line terminator ("\r\n" or "\n")
FirstLine(s) ==
    LET ends == LineBreaks(s)
        n == IF ends = {} THEN Len(s) + 1 ELSE CHOOSE i \in ends : \A j \in ends : i <= j
        cut == IF n > 1 /\ n <= Len(s) /\ s[n - 1] = "\r" THEN n - 2 ELSE n - 1
    IN  SubSeq(s, 1, cut)

ExportedRows ==
    {i \in MatchingRows :
        Cardinality({j \in MatchingRows : j < i}) < Min(ExportLimit(req), 10000)}

HasLineBreak(o) == o # None /\ \E k \in 1..Len(Val(o)) : Val(o)[k] \in {"\r", "\n"}

\* some text column of the case holds a carriage return or a line feed
CaseHasLineBreak(c) ==
    \E f \in {Some(c.id), Some(c.title), c.citation, c.court, c.date, c.judges,
              c.headnote} : HasLineBreak(f)

-----------------------------------------------------------------------------
(* Reading JSON back: the objects of a JSONL text *)

\* a JSON value read from text: null, a string or an integer
JNull == [type |-> "null", n |-> 0, s |-> <<>>]
JStr(x) == [type |-> "string", n |-> 0, s |-> x]
JNum(k) == [type |-> "number", n |-> k, s |-> <<>>]

JsonFail == [ok |-> FALSE, v |-> JNull, next |-> 0]

\* the JSON value that starts at position i and the position after it
ParseValue(s, i) ==
    IF At(s, i) = "\""
    THEN LET e == StringEnd(s, i)
         IN  IF e = 0 THEN JsonFail
             ELSE [ok |-> TRUE, v |-> JStr(Unescape(s, i + 1, e - 1)), next |-> e + 1]
    ELSE IF SubSeq(s, i, Min(i + 3, Len(s))) = <<"n", "u", "l", "l">>
         THEN [ok |-> TRUE, v |-> JNull, next |-> i + 4]
         ELSE LET from == IF At(s, i) = "-" THEN i + 1 ELSE i
                  E == {j \in from..Len(s) : \A k \in from..j : IsDigit(s[k])}
              IN  IF E = {} THEN JsonFail
                  ELSE LET e == CHOOSE j \in E : \A h \in E : j >= h
                           k == ParseNat(SubSeq(s, from, e))
                       IN  [ok |-> TRUE,
                            v |-> JNum(IF from > i THEN 0 - k ELSE k),
                            next |-> e + 1]

\* the members "key": value of an object from position i to its closing brace,
\* which must end the text
RECURSIVE ParseMembers(_, _, _)
ParseMembers(s, i, acc) ==
    LET e == IF At(s, i) = "\"" THEN StringEnd(s, i) ELSE 0
        val == IF e > 0 /\ At(s, e + 1) = ":" /\ At(s, e + 2) = " "
               THEN ParseValue(s, e + 3) ELSE JsonFail
        member == [key |-> Unescape(s, i + 1, e - 1), val |-> val.v]
    IN  IF ~val.ok THEN [ok |-> FALSE, members |-> <<>>]
        ELSE IF At(s, val.next) = "}" /\ val.next = Len(s)
             THEN [ok |-> TRUE, members |-> Append(acc, member)]
             ELSE IF At(s, val.next) = "," /\ At(s, val.next + 1) = " "
                  THEN ParseMembers(s, val.next + 2, Append(acc, member))
                  ELSE [ok |-> FALSE, members |-> <<>>]

ParseObject(s) ==
    IF At(s, 1) = "{" THEN ParseMembers(s, 2, <<>>) ELSE [ok |-> FALSE, members |-> <<>>]

\* the k-th element of a set of positions, in increasing order
Nth(S, k) == CHOOSE i \in S : Cardinality({j \in S : j < i}) = k - 1

\* line k of a text whose lines are separated by "\n"
Line(s, k) ==
    LET B == LineBreaks(s)
        from == IF k = 1 THEN 1 ELSE Nth(B, k - 1) + 1
        to == IF k > Cardinality(B) THEN Len(s) ELSE Nth(B, k) - 1
    IN  SubSeq(s, from, to)

JOpt(o) == IF o = None THEN JNull ELSE JStr(Val(o))

\* the object the specification describes for a case: the eight keys in order,
\* null for an absent optional field, every field whole
StatedObject(c) ==
    LET vals == <<JStr(c.id), JStr(c.title), JOpt(c.citation), JOpt(c.court),
                  JOpt(c.date), IF c.year = None THEN JNull ELSE JNum(Val(c.year)),
                  JOpt(c.judges), JOpt(c.headnote)>>
    IN  [k \in 1..Len(ExportColumns) |-> [key |-> ExportColumns[k], val |-> vals[k]]]

\* C13: the body of a JSONL export has exactly one line per serialized record,
\* each line a JSON object with exactly the keys id,title,citation,court,date,
\* year,judges,headnote (null for absent optional fields, headnote not
\* truncated), the lines separated by a single newline with no trailing
\* newline; a zero-match export yields the empty string with row count 0.
C13_JsonlLines ==
    JsonlDone =>
        LET n == Cardinality(ExportedRows)
        IN  /\ ParseNat(resp.x_export_count) = n
            /\ n = 0 => resp.content = <<>>
            /\ n > 0 =>
                  /\ Cardinality(LineBreaks(resp.content)) = n - 1
                  /\ resp.content[Len(resp.content)] # "\n"
                  /\ \A k \in 1..n :
                        LET obj == ParseObject(Line(resp.content, k))
                        IN  /\ obj.ok
                            /\ obj.members = StatedObject(store[Nth(ExportedRows, k)])

\* two records, one with a line break in a field and absent fields, one with a
\* headnote longer than the CSV export would keep
C13_Witness ==
    /\ JsonlDone
    /\ Cardinality(ExportedRows) = 2
    /\ \E i \in ExportedRows : CaseHasLineBreak(store[i]) /\ store[i].court = None
    /\ \E i \in ExportedRows :
          store[i].headnote # None /\ Len(Val(store[i].headnote)) > CsvHeadnoteChars

-----------------------------------------------------------------------------
(* Search and export compared, checked under SpecSame *)

\* a text argument that was supplied: not absent and not empty
Supplied(o) == o # None /\ Val(o) # <<>>

\* the conjunction of the conditions of the arguments supplied
StatedWhere(case) ==
    /\ req.q # <<>> => TextCondition(case, req.q)
    /\ Supplied(req.court) => ilike(case.court, SearchTerm(Val(req.court)))
    /\ req.year # None => case.year = req.year
    /\ Supplied(req.date_from) =>
          (case.date # None /\ StrLe(Val(req.date_from), Val(case.date)))
    /\ Supplied(req.date_to) =>
          (case.date # None /\ StrLe(Val(case.date), Val(req.date_to)))

Ids(rows) == {rows[i].id : i \in 1..Len(rows)}
IdsAt(S) == {store[i].id : i \in S}

\* the rows search counts and the rows export selects, by position
SearchCounted ==
    {i \in 1..Len(store) :
        SearchWhere(store[i], req.q, req.court, req.year, req.date_from, req.date_to)}

\* C14: export and search use the same filter: for every store and every
\* combination of query, court, year, date_from and date_to, each possibly
\* absent or empty, the records an export with a limit of at least the store
\* size serializes are the records search counts in total; all supplied
\* conditions are ANDed, and with no conditions every record matches.
C14_SameFilterAnded ==
    /\ (ExportDone /\ req.limit >= Len(store)) =>
          /\ Ids(resp.rows) = IdsAt(SearchCounted)
          /\ Ids(resp.rows) = IdsAt({i \in 1..Len(store) : StatedWhere(store[i])})
    /\ SearchDone =>
          /\ resp.total = Cardinality(MatchingRows)
          /\ resp.total = Cardinality({i \in 1..Len(store) : StatedWhere(store[i])})

\* the part of C14 that compares the two calls with each other
C14_SameSet ==
    /\ (ExportDone /\ req.limit >= Len(store)) => Ids(resp.rows) = IdsAt(SearchCounted)
    /\ SearchDone => resp.total = Cardinality(MatchingRows)

-----------------------------------------------------------------------------
(* Properties of the case lookup, checked under SpecCase *)

CaseDone == pc = "done" /\ req.op = "GET /api/v1/cases/{case_id}"
CaseFound == {i \in 1..Len(store) : store[i].id = req.case_id}

\* C15: for every stored judges string, fetching an existing case by id never
\* surfaces an error to the client because of the judges value: if the string
\* is a JSON array of names the judges field is that list, and if it cannot be
\* parsed the judges field is the single-element list holding the raw string.
C15_JudgesNeverError ==
    (CaseDone /\ CaseFound # {}) =>
        /\ resp.kind = "CaseDetail"
        /\ \A i \in CaseFound :
              Truthy(store[i].judges) =>
                 LET raw == Val(store[i].judges)
                     r == json_loads(raw)
                 IN  /\ (r.ok /\ ValidJudges(r.v)) =>
                            resp.judges =
                               Some([k \in 1..Len(r.v.items) |-> r.v.items[k].s])
                     /\ ~r.ok => resp.judges = Some(<<raw>>)

-----------------------------------------------------------------------------
(* Properties of the middleware, checked under SpecMW *)

\* C16: every response sent to a client, on every route and for every outcome
\* (success, 4xx, and failures raised inside a handler), carries an
\* X-Response-Time header and an X-Request-ID header whose value is the
\* client's X-Request-ID request header when one was supplied and a freshly
\* generated id otherwise.
C16_HeadersOnEveryResponse ==
    pc = "sent" =>
        /\ Val(sent).x_response_time # None
        /\ Val(sent).x_request_id # None
        /\ Val(Val(sent).x_request_id) =
              IF Truthy(headers.x_request_id) THEN Val(headers.x_request_id)
              ELSE request_id
        /\ ~Truthy(headers.x_request_id) => Val(Val(sent).x_request_id) \in UUIDs

-----------------------------------------------------------------------------
(* Properties of requests in flight together, checked under SpecConc *)

-----------------------------------------------------------------------------
(* Properties of a search during loading, checked under SpecIngest *)

\* C18: a search response is internally consistent even when the external
\* ingestion process inserts, updates or deletes records between the
\* request's store reads: len(results) <= total and
\* len(results) = min(per_page, max(0, total - (page-1)*per_page)), so results
\* is never non-empty while total and total_pages are 0.
C18_ConsistentUnderIngestion ==
    SearchDone =>
        LET rest == resp.total - (resp.page - 1) * resp.per_page
        IN  /\ Len(resp.results) <= resp.total
            /\ Len(resp.results) = Min(resp.per_page, IF rest > 0 THEN rest ELSE 0)

-----------------------------------------------------------------------------
(* Properties of the pages of one search, checked under Spec *)

\* the rows search_cases reads for page p of the finished call
PageOf(p) == PageRows(store, [req EXCEPT !.page = p])

\* pages 1..n one after the other
PagesUpTo(n) == Flatten([p \in 1..n |-> PageOf(p)])

MatchingIds ==
    {store[i].id : i \in {j \in 1..Len(store) :
        SearchWhere(store[j], req.q, req.court, req.year, req.date_from, req.date_to)}}

\* C19: for an unchanged store with a stable row order and fixed filters and
\* per_page, the pages 1..total_pages partition the matching set: each page
\* holds at most per_page rows, every page before the last holds exactly
\* per_page rows, concatenating the pages yields every matching record exactly
\* once, and every page greater than total_pages is empty.
C19_PagesPartitionMatches ==
    SearchDone =>
        LET last == resp.total_pages
            all == PagesUpTo(last)
        IN  /\ resp.results = [i \in 1..Len(PageOf(req.page)) |->
                                  CaseResponse(PageOf(req.page)[i])]
            /\ \A p \in 1..last : Len(PageOf(p)) <= req.per_page
            /\ \A p \in 1..(last - 1) : Len(PageOf(p)) = req.per_page
            /\ Len(all) = Cardinality(MatchingIds)
            /\ {all[i].id : i \in 1..Len(all)} = MatchingIds
            /\ \A i \in 1..Len(all) : \E j \in 1..Len(store) : store[j] = all[i]
            /\ \A p \in (last + 1)..(last + MaxPage) : PageOf(p) = <<>>

\* three matching rows in pages of two, and the page after the last requested
C19_Witness ==
    /\ SearchDone
    /\ Cardinality(MatchingIds) = 3
    /\ req.per_page = 2
    /\ resp.total_pages = 2
    /\ Len(PageOf(2)) = 1
    /\ req.page = 3
    /\ resp.results = <<>>

-----------------------------------------------------------------------------
(* Properties of the wrappers of highlight_snippet, checked under SpecHL *)

\* the output holds <mark>, some text, </mark>
HasWrapper(out) ==
    \E i, j \in 0..Len(out) :
        /\ PySlice(out, i, i + Len(OpenTag(Mark))) = OpenTag(Mark)
        /\ j > i + Len(OpenTag(Mark))
        /\ PySlice(out, j, j + Len(CloseTag(Mark))) = CloseTag(Mark)

TokenOccurs ==
    \E t \in 1..Len(HLTokens) : Occurrences(HLTokens[t], Val(hl_text)) # {}

\* some occurrence of a token lies wholly inside the window
TokenInWindow ==
    \E t \in 1..Len(HLTokens) :
        \E m \in Occurrences(HLTokens[t], Val(hl_text)) :
            StatedStart <= m /\ m + Len(HLTokens[t]) <= StatedEnd

\* C20 as stated: whenever at least one query token occurs (case-insensitively)
\* in a non-empty text, the output of highlight_snippet contains at least one
\* <tag>...</tag> wrapper, for every token length and every max_length >= 1.
C20_AsStated ==
    (HLHighlights /\ TokenOccurs) => HasWrapper(Val(hl_result))

\* C20, amended: whenever an occurrence of a query token lies wholly inside
\* the window [start, start + max_length) of a non-empty text, the output
\* contains at least one <tag>...</tag> wrapper; that is so in particular
\* whenever a token occurs and no token is longer than
\* max_length - max_length // 3.
C20_WrapperWhenMatchInWindow ==
    /\ (HLHighlights /\ TokenInWindow) => HasWrapper(Val(hl_result))
    /\ ( /\ HLHighlights
         /\ TokenOccurs
         /\ \A t \in 1..Len(HLTokens) :
               Len(HLTokens[t]) <= hl_max_length - (hl_max_length \div 3) )
       => HasWrapper(Val(hl_result))

\* a token as long as the window allows, found past the start of the text and
\* wrapped in a snippet cut at its start
C20_Witness ==
    /\ HLHighlights
    /\ StatedStart > 0
    /\ \A t \in 1..Len(HLTokens) : ~HasDot(HLTokens[t])
    /\ \E t \in 1..Len(HLTokens) :
          /\ Len(HLTokens[t]) = hl_max_length - (hl_max_length \div 3)
          /\ Len(HLTokens[t]) >= 2
    /\ TokenInWindow
    /\ HasWrapper(Val(hl_result))

====
